---------------------------- MODULE Spec2Model ----------------------------
(***************************************************************************)
(* Model of netlify/functions/export_csv_zip.js: the invoice text parsing  *)
(* pipeline (line normaliser, field extractors, table locator, row parser, *)
(* CSV encoder) and the request handler around it.                         *)
(*                                                                         *)
(* Text is a sequence of one-character strings.  The regular expressions   *)
(* of the source are kept as syntax trees and run by a backtracking        *)
(* matcher with JavaScript's priority order (leftmost start, greedy        *)
(* quantifiers, alternatives left to right), so that every match, capture  *)
(* and slice below is computed the way the source computes it.             *)
(***************************************************************************)
EXTENDS Integers, Sequences, FiniteSets, TLC

VARIABLES
    mode,       \* which entry point of the module is being exercised
    pc,         \* position inside that entry point
    lines,      \* the cleaned line sequence (0-based in the source, 1-based here)
    headerIdx,  \* findTableStart's result, as a source index (-1 = not found)
    idx,        \* parseLines' loop variable i, as a source index
    out,        \* parseLines' item list
    result,     \* the value returned by the entry point (or the CSV text)
    event,      \* the handler's request
    build,      \* which of the two module files is deployed
    text,       \* the text the PDF collaborator returned (data.text)
    resp,       \* the handler's response
    trail,      \* the collaborators and pipeline steps the handler invoked
    twin        \* a second line sequence, for comparing two runs

vars ==
    <<mode, pc, lines, headerIdx, idx, out, result, event, build, text, resp, trail, twin>>

-----------------------------------------------------------------------------
(* Characters *)

LowerAlpha == <<"a","b","c","d","e","f","g","h","i","j","k","l","m","n","o","p","q","r","s","t","u","v","w","x","y","z">>
UpperAlpha == <<"A","B","C","D","E","F","G","H","I","J","K","L","M","N","O","P","Q","R","S","T","U","V","W","X","Y","Z">>
DigitSeq == <<"0","1","2","3","4","5","6","7","8","9">>

Range(f) == {f[k] : k \in DOMAIN f}

Lowers == Range(LowerAlpha)
Uppers == Range(UpperAlpha)
Digit == Range(DigitSeq)
Alnum == Lowers \cup Uppers \cup Digit
\* \w of a JavaScript regular expression
WordCh == Alnum \cup {"_"}
\* U+00A0, kept as one element of a text
NBSP == "nbsp"
\* \s, restricted to the white space the model's texts contain
Space == {" ", "\t", "\n", "\r", NBSP}
\* null and a present value: an optional value is a sequence of length 0 or 1
NULL == <<>>
Some(x) == <<x>>

AlphaIndex(a, c) == CHOOSE k \in DOMAIN a : a[k] = c
ToUpper(c) == IF c \in Lowers THEN UpperAlpha[AlphaIndex(LowerAlpha, c)] ELSE c
ToLower(c) == IF c \in Uppers THEN LowerAlpha[AlphaIndex(UpperAlpha, c)] ELSE c

\* the concatenation of a sequence of sequences (by halves)
RECURSIVE FlatRange(_, _, _)
FlatRange(ss, lo, hi) ==
    IF lo > hi THEN <<>>
    ELSE IF lo = hi THEN ss[lo]
    ELSE LET mid == (lo + hi) \div 2
         IN FlatRange(ss, lo, mid) \o FlatRange(ss, mid + 1, hi)
Flat(ss) ==
    IF Len(ss) = 0 THEN <<>>
    ELSE IF Len(ss) = 1 THEN ss[1]
    ELSE FlatRange(ss, 1, Len(ss))

\* the least element of a non-empty set of integers
Least(S) == CHOOSE x \in S : \A y \in S : x <= y

Max(a, b) == IF a >= b THEN a ELSE b
Min(a, b) == IF a <= b THEN a ELSE b

-----------------------------------------------------------------------------
(* Regular expression syntax trees *)

MaxGroups == 3
INF == -1

\* a single character out of a set, and one outside it
In(cs) == [t |-> "set", cs |-> cs]
NotIn(cs) == [t |-> "nset", cs |-> cs]
\* a literal character
Ch(c) == In({c})
\* . (any character but a line terminator)
Dot == [t |-> "dot"]
Cat(rs) == [t |-> "cat", rs |-> rs]
Alt(rs) == [t |-> "alt", rs |-> rs]
\* r{min,max}, greedy; max = INF for an open quantifier
Rep(r, min, max) == [t |-> "rep", r |-> r, min |-> min, max |-> max]
Opt(r) == Rep(r, 0, 1)
Star(r) == Rep(r, 0, INF)
Plus(r) == Rep(r, 1, INF)
\* (r) as capture group k; (?:r) is r itself
Grp(k, r) == [t |-> "grp", k |-> k, r |-> r]
Bol == [t |-> "bol"]
Eol == [t |-> "eol"]
WordB == [t |-> "wb"]
\* a literal word, case-sensitive and under the i flag
Lit(w) == [t |-> "lit", w |-> w, i |-> FALSE]
LitI(w) == [t |-> "lit", w |-> w, i |-> TRUE]

NoCaps == [k \in 1..MaxGroups |-> <<0, 0>>]

IsWordAt(s, i) == i >= 1 /\ i <= Len(s) /\ s[i] \in WordCh

\* s holds the word w at position i (in any letter case when ci)
HasAt(s, w, i, ci) ==
    /\ i + Len(w) - 1 <= Len(s)
    /\ \A k \in DOMAIN w :
          IF ci THEN ToLower(s[i + k - 1]) = ToLower(w[k]) ELSE s[i + k - 1] = w[k]

\* one character of s at position i matches the one-character pattern r
One(r, s, i) ==
    /\ i <= Len(s)
    /\ CASE r.t = "set" -> s[i] \in r.cs
         [] r.t = "nset" -> s[i] \notin r.cs
         [] r.t = "dot" -> s[i] \notin {"\n", "\r"}

\* the number of characters from position i on that match r, one after another
Run(r, s, i) ==
    CHOOSE n \in 0..(Len(s) + 1 - i) :
        (\A k \in 0..(n - 1) : One(r, s, i + k)) /\ ~One(r, s, i + n)

\* All the ways re matches s from position i, in backtracking priority order:
\* a sequence of [e |-> position after the match, c |-> captures].
RECURSIVE M(_, _, _, _), MCat(_, _, _, _, _), MRep(_, _, _, _, _, _)
M(re, s, i, c) ==
    CASE re.t \in {"set", "nset", "dot"} ->
            IF One(re, s, i) THEN <<[e |-> i + 1, c |-> c]>> ELSE <<>>
      [] re.t = "lit" -> IF HasAt(s, re.w, i, re.i)
                         THEN <<[e |-> i + Len(re.w), c |-> c]>> ELSE <<>>
      [] re.t = "bol" -> IF i = 1 THEN <<[e |-> i, c |-> c]>> ELSE <<>>
      [] re.t = "eol" -> IF i = Len(s) + 1 THEN <<[e |-> i, c |-> c]>> ELSE <<>>
      [] re.t = "wb"  -> IF IsWordAt(s, i - 1) # IsWordAt(s, i)
                         THEN <<[e |-> i, c |-> c]>> ELSE <<>>
      [] re.t = "cat" -> MCat(re.rs, Len(re.rs), s, i, c)
      [] re.t = "alt" -> Flat([k \in DOMAIN re.rs |-> M(re.rs[k], s, i, c)])
      [] re.t = "rep" ->
            IF re.r.t \in {"set", "nset", "dot"}
            THEN \* a quantified character class: the longest run first
                 LET run == Run(re.r, s, i)
                     most == IF re.max = INF THEN run ELSE Min(run, re.max)
                 IN IF most < re.min THEN <<>>
                    ELSE [j \in 1..(most - re.min + 1) |->
                            [e |-> i + most - (j - 1), c |-> c]]
            ELSE MRep(re.r, re.min, re.max, s, i, c)
      [] re.t = "grp" -> LET R == M(re.r, s, i, c)
                         IN IF R = <<>> THEN <<>>
                            ELSE [j \in DOMAIN R |->
                                    [e |-> R[j].e,
                                     c |-> [R[j].c EXCEPT ![re.k] = <<i, R[j].e>>]]]
\* the matches of rs[1] .. rs[k] in a row: every match of the first k - 1
\* parts, in order, continued by every match of rs[k], in order
MCat(rs, k, s, i, c) ==
    IF k = 0 THEN <<[e |-> i, c |-> c]>>
    ELSE LET R == MCat(rs, k - 1, s, i, c)
         IN IF R = <<>> THEN <<>>
            ELSE Flat([j \in DOMAIN R |-> M(rs[k], s, R[j].e, R[j].c)])
MRep(r, min, max, s, i, c) ==
    LET R == IF max = 0 THEN <<>> ELSE M(r, s, i, c)
        more == IF R = <<>> THEN <<>> ELSE
                Flat([j \in DOMAIN R |->
                        IF R[j].e > i
                        THEN MRep(r, Max(min - 1, 0),
                                  IF max = INF THEN INF ELSE max - 1,
                                  s, R[j].e, R[j].c)
                        ELSE <<>>])
        stop == IF min = 0 THEN <<[e |-> i, c |-> c]>> ELSE <<>>
    IN more \o stop

NoMatch == [found |-> FALSE]

\* RegExp.prototype.exec from position `from` on: the first match at the
\* leftmost position that has one.
ExecAt(re, s, from) ==
    LET starts == {i \in from..(Len(s) + 1) : M(re, s, i, NoCaps) # <<>>}
    IN IF starts = {} THEN NoMatch
       ELSE LET i == Least(starts)
                r == Head(M(re, s, i, NoCaps))
            IN [found |-> TRUE, index |-> i, end |-> r.e, c |-> r.c]
\* String.prototype.match without the g flag
Exec(re, s) == ExecAt(re, s, 1)
\* RegExp.prototype.test
Test(re, s) == Exec(re, s).found
\* m[0] and m[k]
Whole(s, m) == SubSeq(s, m.index, m.end - 1)
Group(s, m, k) == SubSeq(s, m.c[k][1], m.c[k][2] - 1)

\* String.prototype.replace with a g-flag regular expression: every match,
\* left to right, is replaced; an empty match advances by one character.
RECURSIVE ReplaceFrom(_, _, _, _)
ReplaceFrom(re, s, by, i) ==
    LET m == ExecAt(re, s, i)
    IN IF i > Len(s) \/ ~m.found THEN SubSeq(s, i, Len(s))
       ELSE IF m.end > m.index
            THEN SubSeq(s, i, m.index - 1) \o by \o ReplaceFrom(re, s, by, m.end)
            ELSE SubSeq(s, i, Min(m.index, Len(s))) \o by
                 \o ReplaceFrom(re, s, by, m.index + 1)
ReplaceAll(re, s, by) == ReplaceFrom(re, s, by, 1)

\* String.prototype.trim
Trim(s) ==
    LET inked == {k \in DOMAIN s : s[k] \notin Space}
    IN IF inked = {} THEN <<>>
       ELSE SubSeq(s, Least(inked), CHOOSE k \in inked : \A j \in inked : j <= k)

\* String.prototype.lastIndexOf, as a source (0-based) index; -1 when absent
LastIndexOf(s, sub) ==
    LET at == {j \in 0..(Len(s) - Len(sub)) : SubSeq(s, j + 1, j + Len(sub)) = sub}
    IN IF at = {} THEN -1 ELSE CHOOSE j \in at : \A k \in at : k <= j

\* Array.prototype.join
RECURSIVE Join(_, _)
Join(ss, sep) ==
    IF ss = <<>> THEN <<>>
    ELSE IF Len(ss) = 1 THEN ss[1]
    ELSE ss[1] \o sep \o Join(Tail(ss), sep)

\* Array.prototype.slice(0, n)
Slice0(ls, n) == SubSeq(ls, 1, Min(n, Len(ls)))

-----------------------------------------------------------------------------
(* Numbers.  A number is kept as its sign, its integer part and the digits *)
(* of its fraction without trailing zeros, which is what Number() makes of *)
(* a decimal literal and what String() prints back.                        *)

DigitVal(c) == AlphaIndex(DigitSeq, c) - 1

RECURSIVE ToNat(_)
ToNat(ds) == IF ds = <<>> THEN 0 ELSE 10 * ToNat(SubSeq(ds, 1, Len(ds) - 1)) + DigitVal(ds[Len(ds)])

RECURSIVE NatDigits(_)
NatDigits(n) == IF n < 10 THEN <<DigitSeq[n + 1]>> ELSE Append(NatDigits(n \div 10), DigitSeq[(n % 10) + 1])

RECURSIVE StripZeros(_)
StripZeros(ds) == IF ds # <<>> /\ ds[Len(ds)] = "0" THEN StripZeros(SubSeq(ds, 1, Len(ds) - 1)) ELSE ds

NaN == [neg |-> FALSE, ip |-> -1, fr |-> <<>>]

\* Number(v) for a string v
Number(v) ==
    LET neg == v # <<>> /\ v[1] = "-"
        body == IF neg THEN Tail(v) ELSE v
        dots == {k \in DOMAIN body : body[k] = "."}
        dot == IF dots = {} THEN Len(body) + 1 ELSE CHOOSE k \in dots : \A j \in dots : k <= j
        ipd == SubSeq(body, 1, dot - 1)
        frd == SubSeq(body, dot + 1, Len(body))
        wellFormed == /\ Cardinality(dots) <= 1
                      /\ ipd \o frd # <<>>
                      /\ \A k \in DOMAIN ipd : ipd[k] \in Digit
                      /\ \A k \in DOMAIN frd : frd[k] \in Digit
        ip == ToNat(ipd)
        fr == StripZeros(frd)
    IN IF ~wellFormed THEN NaN
       ELSE [neg |-> neg /\ (ip # 0 \/ fr # <<>>), ip |-> ip, fr |-> fr]

\* String(n) for a number n
NumToString(n) ==
    IF n = NaN THEN <<"N", "a", "N">>
    ELSE (IF n.neg THEN <<"-">> ELSE <<>>)
         \o NatDigits(n.ip)
         \o (IF n.fr = <<>> THEN <<>> ELSE <<".">> \o n.fr)

-----------------------------------------------------------------------------
(* Patterns and helpers of the row parser *)

\* \d+(?:\.\d+)?
QTY_RE == Cat(<<Plus(In(Digit)), Opt(Cat(<<Ch("."), Plus(In(Digit))>>))>>)

\* -?\$?\d{1,3}(?:,\d{3})*(?:\.\d{2})?|-?\$?\d+(?:\.\d{2})?
MONEY_RE ==
    Alt(<<Cat(<<Opt(Ch("-")), Opt(Ch("$")), Rep(In(Digit), 1, 3),
                Star(Cat(<<Ch(","), Rep(In(Digit), 3, 3)>>)),
                Opt(Cat(<<Ch("."), Rep(In(Digit), 2, 2)>>))>>),
          Cat(<<Opt(Ch("-")), Opt(Ch("$")), Plus(In(Digit)),
                Opt(Cat(<<Ch("."), Rep(In(Digit), 2, 2)>>))>>)>>)

\* (QTY_RE)\s+(MONEY_RE)\s+(MONEY_RE)$
tailRe ==
    Cat(<<Grp(1, QTY_RE), Plus(In(Space)), Grp(2, MONEY_RE),
          Plus(In(Space)), Grp(3, MONEY_RE), Eol>>)

\* ^([A-Za-z0-9._\-/]+)\s+(.*)$
leftRe ==
    Cat(<<Bol, Grp(1, Plus(In(Alnum \cup {".", "_", "-", "/"}))),
          Plus(In(Space)), Grp(2, Star(Dot)), Eol>>)

\* unmoney that strips the $ signs only
unmoneyKeepCommas(s) ==
    IF s = NULL THEN NULL
    ELSE LET v == Trim(ReplaceAll(Ch("$"), s[1], <<>>))
         IN IF v = <<>> THEN NULL ELSE Some(Number(v))

unmoney(s) ==
    IF s = NULL THEN NULL
    ELSE LET v == Trim(ReplaceAll(Ch(","), ReplaceAll(Ch("$"), s[1], <<>>), <<>>))
         IN IF v = <<>> THEN NULL ELSE Some(Number(v))

\* /^(Subtotal|Sub\-Total|Tax|Sales Tax|Total|Balance Due)\b/i
stopWordRe ==
    Cat(<<Bol,
          Alt(<<LitI(<<"S","u","b","t","o","t","a","l">>), LitI(<<"S","u","b","-","T","o","t","a","l">>), LitI(<<"T","a","x">>),
                LitI(<<"S","a","l","e","s"," ","T","a","x">>), LitI(<<"T","o","t","a","l">>), LitI(<<"B","a","l","a","n","c","e"," ","D","u","e">>)>>),
          WordB>>)
\* /^INVOICE\b/i
stopInvoiceRe == Cat(<<Bol, LitI(<<"I","N","V","O","I","C","E">>), WordB>>)
\* /^Page \d+/i
stopPageRe == Cat(<<Bol, LitI(<<"P","a","g","e"," ">>), Plus(In(Digit))>>)

\* shouldStopRow with the page test left case-sensitive
shouldStopRowCasedPage(line) ==
    \/ Test(stopWordRe, line)
    \/ Test(stopInvoiceRe, line)
    \/ Test(Cat(<<Bol, Lit(<<"P","a","g","e"," ">>), Plus(In(Digit))>>), line)

shouldStopRow(line) ==
    Test(stopWordRe, line) \/ Test(stopInvoiceRe, line) \/ Test(stopPageRe, line)

\* the five keyword classes of the table header
headerRe == LitI(<<"A","C","T","I","V","I","T","Y">>)
descRe == LitI(<<"D","E","S","C","R","I","P","T","I","O","N">>)
qtyRe == Alt(<<Cat(<<WordB, LitI(<<"Q","T","Y">>), WordB>>),
               Cat(<<WordB, LitI(<<"Q","U","A","N","T","I","T","Y">>), WordB>>)>>)
rateRe == Alt(<<Cat(<<WordB, LitI(<<"R","A","T","E">>), WordB>>),
                Cat(<<WordB, LitI(<<"P","R","I","C","E">>), WordB>>)>>)
amtRe == Alt(<<Cat(<<WordB, LitI(<<"A","M","O","U","N","T">>), WordB>>),
               Cat(<<WordB, LitI(<<"E","X","T">>), Opt(Ch(".")), WordB>>),
               Cat(<<WordB, LitI(<<"T","O","T","A","L">>), WordB>>)>>)

IsHeaderLine(l) ==
    Test(headerRe, l) /\ Test(descRe, l) /\ Test(qtyRe, l) /\ Test(rateRe, l) /\ Test(amtRe, l)

\* findTableStart that keeps scanning and returns the last header line
findTableStartLast(ls) ==
    LET at == {i \in 0..(Len(ls) - 1) : IsHeaderLine(ls[i + 1])}
    IN IF at = {} THEN -1 ELSE CHOOSE i \in at : \A j \in at : j <= i

\* the source index of the first header line, -1 when there is none
findTableStart(ls) ==
    LET at == {i \in 0..(Len(ls) - 1) : IsHeaderLine(ls[i + 1])}
    IN IF at = {} THEN -1 ELSE Least(at)

\* the item a tail-matched line makes (the mTail branch of parseLines)
TailItem(raw, mTail) ==
    LET trailStart == LastIndexOf(raw, Whole(raw, mTail))
        left == Trim(SubSeq(raw, 1, trailStart))
        mLeft == Exec(leftRe, left)
    IN [activity |-> IF mLeft.found THEN Trim(Group(left, mLeft, 1)) ELSE <<>>,
        description |-> IF mLeft.found THEN Trim(Group(left, mLeft, 2)) ELSE left,
        qty |-> Some(Number(Group(raw, mTail, 1))),
        rate |-> unmoney(Some(Group(raw, mTail, 2))),
        amount |-> unmoney(Some(Group(raw, mTail, 3)))]

\* the item a seed-matched line makes (the mSeed branch of parseLines)
SeedItem(raw, mSeed) ==
    [activity |-> Trim(Group(raw, mSeed, 1)),
     description |-> Trim(Group(raw, mSeed, 2)),
     qty |-> NULL, rate |-> NULL, amount |-> NULL]

\* Continue that joins the texts without the space
ContinueUnspaced(o, raw) ==
    [o EXCEPT ![Len(o)].description = @ \o Trim(raw)]

\* Continue that folds the line into the first item
ContinueFirst(o, raw) ==
    [o EXCEPT ![1].description =
        (IF @ # <<>> THEN @ \o <<" ">> ELSE <<>>) \o Trim(raw)]

\* last.description = (last.description ? last.description + " " : "") + raw.trim()
Continue(o, raw) ==
    [o EXCEPT ![Len(o)].description =
        (IF @ # <<>> THEN @ \o <<" ">> ELSE <<>>) \o Trim(raw)]

\* RowStep that tries the seed match whether or not there are items
RowStepSeedAlways(o, raw) ==
    IF Trim(raw) = <<>> THEN o
    ELSE LET mTail == Exec(tailRe, raw)
         IN IF mTail.found THEN Append(o, TailItem(raw, mTail))
            ELSE LET mSeed == Exec(leftRe, raw)
                 IN IF mSeed.found THEN Append(o, SeedItem(raw, mSeed))
                    ELSE IF Len(o) > 0 THEN Continue(o, raw)
                    ELSE o

\* RowStep making an item of a first line that neither ends in numbers nor
\* begins with a token
RowStepKeepFirst(o, raw) ==
    IF Trim(raw) = <<>> THEN o
    ELSE LET mTail == Exec(tailRe, raw)
         IN IF mTail.found THEN Append(o, TailItem(raw, mTail))
            ELSE LET mSeed == Exec(leftRe, raw)
                 IN IF Len(o) = 0 /\ mSeed.found THEN Append(o, SeedItem(raw, mSeed))
                    ELSE IF Len(o) > 0 THEN Continue(o, raw)
                    ELSE <<[activity |-> <<>>, description |-> Trim(raw),
                            qty |-> NULL, rate |-> NULL, amount |-> NULL]>>

\* the body of parseLines' loop for a line that is not a stop row
RowStep(o, raw) ==
    IF Trim(raw) = <<>> THEN o
    ELSE LET mTail == Exec(tailRe, raw)
         IN IF mTail.found THEN Append(o, TailItem(raw, mTail))
            ELSE LET mSeed == Exec(leftRe, raw)
                 IN IF Len(o) = 0 /\ mSeed.found THEN Append(o, SeedItem(raw, mSeed))
                    ELSE IF Len(o) > 0 THEN Continue(o, raw)
                    ELSE o

-----------------------------------------------------------------------------
(* CSV encoder *)

\* /[,\r\n"]/
csvSpecialRe == In({",", "\r", "\n", "\""})

\* escapeCsv wrapping a field without doubling its quotes
escapeCsvUndoubled(value) ==
    IF value = NULL THEN <<>>
    ELSE IF Test(csvSpecialRe, value[1]) THEN <<"\"">> \o value[1] \o <<"\"">>
    ELSE value[1]

escapeCsv(value) ==
    IF value = NULL THEN <<>>
    ELSE LET str == value[1]
         IN IF Test(csvSpecialRe, str)
            THEN <<"\"">> \o ReplaceAll(Ch("\""), str, <<"\"", "\"">>) \o <<"\"">>
            ELSE str

\* rows.map(r => r.map(escapeCsv).join(",")).join("\n")
CsvText(rows) ==
    Join([r \in DOMAIN rows |->
            Join([k \in DOMAIN rows[r] |-> escapeCsv(rows[r][k])], <<",">>)],
         <<"\n">>)

NumCell(n) == IF n # NULL THEN NumToString(n[1]) ELSE <<>>

linesCsvRows(items) ==
    <<<<Some(<<"A","c","t","i","v","i","t","y">>), Some(<<"D","e","s","c","r","i","p","t","i","o","n">>), Some(<<"Q","t","y">>), Some(<<"R","a","t","e">>),
        Some(<<"A","m","o","u","n","t">>)>>>>
    \o [k \in DOMAIN items |->
          <<Some(items[k].activity), Some(items[k].description),
            Some(NumCell(items[k].qty)), Some(NumCell(items[k].rate)),
            Some(NumCell(items[k].amount))>>]

-----------------------------------------------------------------------------
(* Table locator, row parser and line-items CSV: the steps of the handler   *)
(* from findTableStart to linesCsv, run over a cleaned line sequence.       *)

MaxRows == 3

HeaderLine == <<"A","C","T","I","V","I","T","Y"," ","D","E","S","C","R","I","P","T","I","O","N"," ","Q","T","Y"," ","R","A","T","E"," ","A","M","O","U","N","T">>
\* all keyword classes but QTY, which is not a whole word here
NearHeaderLine == <<"A","c","t","i","v","i","t","y"," ","D","e","s","c","r","i","p","t","i","o","n"," ","Q","t","y","s"," ","P","r","i","c","e"," ","E","x","t",".">>
AltHeaderLine == <<"a","c","t","i","v","i","t","y","/","d","e","s","c","r","i","p","t","i","o","n"," ","q","u","a","n","t","i","t","y"," ","p","r","i","c","e"," ","e","x","t",".">>

RowLabor == <<"L","B","R"," ","L","a","b","o","r"," ","-"," ","s","i","t","e"," ","v","i","s","i","t"," ","2"," ","5","0",".","0","0"," ","1","0","0",".","0","0">>
RowNumbers == <<"2"," ","$","1",",","2","5","0",".","0","0"," ","-","5">>
RowSubtotal == <<"S","u","b","t","o","t","a","l"," ","1","0","0",".","0","0">>
RowTaxi == <<"T","a","x","i"," ","f","a","r","e"," ","1"," ","5",".","0","0"," ","5",".","0","0">>
RowText == <<"o","n"," ","s","i","t","e">>
RowWord == <<"m","i","s","c">>
RowParts == <<"(","p","a","r","t","s",")"," ","b","o","l","t","1",".","5"," ","3"," ","4">>
RowPage == <<"p","a","g","e"," ","2">>
\* two words that do not begin with a token
RowNote == <<"(","s","e","e"," ","n","o","t","e",")"," ","p","e","n","d","i","n","g">>

RowPool ==
    {RowLabor, RowNumbers, RowSubtotal, RowTaxi, RowText, RowWord, RowParts, RowPage}

RECURSIVE SeqsUpTo(_, _)
SeqsUpTo(S, n) ==
    IF n = 0 THEN {<<>>}
    ELSE LET shorter == SeqsUpTo(S, n - 1)
         IN shorter \cup {Append(q, x) : q \in shorter, x \in S}

\* documents with the header first, and a few with the header missing,
\* nearly there, repeated, below other lines, or above lines that make no item
HeaderDocs == {<<HeaderLine>> \o rows : rows \in SeqsUpTo(RowPool, MaxRows)}
OtherDocs ==
    {<<RowLabor>>,
     <<RowLabor, RowText>>,
     <<NearHeaderLine, RowLabor>>,
     <<RowLabor, NearHeaderLine, RowText, RowNumbers>>,
     <<RowLabor, HeaderLine, RowTaxi>>,
     <<RowText, RowLabor, AltHeaderLine, RowText, RowParts>>,
     <<NearHeaderLine, HeaderLine, RowLabor, HeaderLine, RowNumbers>>,
     <<RowLabor, RowSubtotal, AltHeaderLine, HeaderLine, RowWord, RowLabor>>,
     <<HeaderLine, RowNote, RowWord, RowText, RowLabor>>,
     <<HeaderLine, RowNote, RowLabor, RowNote>>}
RowDocs == HeaderDocs \cup OtherDocs

Idle(m) ==
    /\ mode = m
    /\ event = NULL
    /\ build = "none"
    /\ text = NULL
    /\ resp = NULL
    /\ trail = <<>>
    /\ twin = <<>>

InitRows ==
    /\ Idle("rows")
    /\ pc = "locate"
    /\ lines \in RowDocs
    /\ headerIdx = -1
    /\ idx = 0
    /\ out = <<>>
    /\ result = NULL

\* const headerIdx = findTableStart(lines)
Locate ==
    /\ mode = "rows" /\ pc = "locate"
    /\ headerIdx' = findTableStart(lines)
    /\ pc' = "parse"
    /\ UNCHANGED <<mode, lines, idx, out, result, event, build, text, resp, trail, twin>>

\* parseLines up to its loop: if (headerIdx < 0) return []; start = headerIdx + 1
ParseEnter ==
    /\ mode = "rows" /\ pc = "parse"
    /\ out' = <<>>
    /\ IF headerIdx < 0
       THEN pc' = "done" /\ idx' = idx
       ELSE pc' = "loop" /\ idx' = headerIdx + 1
    /\ UNCHANGED <<mode, lines, headerIdx, result, event, build, text, resp, trail, twin>>

\* one iteration of parseLines' loop
ParseLine ==
    /\ mode = "rows" /\ pc = "loop"
    /\ idx < Len(lines)
    /\ LET raw == lines[idx + 1]
       IN IF shouldStopRow(raw)
          THEN pc' = "done" /\ UNCHANGED <<idx, out>>
          ELSE pc' = pc /\ idx' = idx + 1 /\ out' = RowStep(out, raw)
    /\ UNCHANGED <<mode, lines, headerIdx, result, event, build, text, resp, trail, twin>>

\* the loop runs off the end of the lines: return out
ParseReturn ==
    /\ mode = "rows" /\ pc = "loop"
    /\ ~(idx < Len(lines))
    /\ pc' = "done"
    /\ UNCHANGED <<mode, lines, headerIdx, idx, out, result, event, build, text, resp, trail, twin>>

\* linesCsv = linesCsvRows.map(...).join("\n")
EncodeLines ==
    /\ mode = "rows" /\ pc = "done"
    /\ result' = Some(CsvText(linesCsvRows(out)))
    /\ pc' = "csv"
    /\ UNCHANGED <<mode, lines, headerIdx, idx, out, event, build, text, resp, trail, twin>>

NextRows == Locate \/ ParseEnter \/ ParseLine \/ ParseReturn \/ EncodeLines

SpecRows == InitRows /\ [][NextRows]_vars

-----------------------------------------------------------------------------
(* Properties of the row parser *)

\* the line the loop is about to read, and whether there is one
AtLine == mode = "rows" /\ pc = "loop" /\ idx < Len(lines)
Raw == lines[idx + 1]
\* the line the loop read last, once it has read one
ReadOne == mode = "rows" /\ pc = "loop" /\ idx > headerIdx + 1
Prev == lines[idx]

HasPrefixCI(l, w) ==
    Len(l) >= Len(w) /\ \A k \in DOMAIN w : ToLower(l[k]) = ToLower(w[k])
IsPrefix(p, s) == Len(p) <= Len(s) /\ SubSeq(s, 1, Len(p)) = p
IsSuffix(p, s) == Len(p) <= Len(s) /\ SubSeq(s, Len(s) - Len(p) + 1, Len(s)) = p

StopWords ==
    {<<"S","u","b","t","o","t","a","l">>, <<"S","u","b","-","T","o","t","a","l">>, <<"T","a","x">>, <<"S","a","l","e","s"," ","T","a","x">>, <<"T","o","t","a","l">>, <<"B","a","l","a","n","c","e"," ","D","u","e">>}
PageStop(l) == HasPrefixCI(l, <<"P","a","g","e"," ">>) /\ Len(l) >= 6 /\ l[6] \in Digit
InvoiceStop(l) == HasPrefixCI(l, <<"I","N","V","O","I","C","E">>) /\ ~IsWordAt(l, 8)
\* the line begins with a stop word, whatever follows it
BeginsStop(l) ==
    (\E w \in StopWords : HasPrefixCI(l, w)) \/ InvoiceStop(l) \/ PageStop(l)
\* the line begins with a stop word that ends at a word boundary
WholeStop(l) ==
    (\E w \in StopWords : HasPrefixCI(l, w) /\ ~IsWordAt(l, Len(w) + 1))
    \/ InvoiceStop(l) \/ PageStop(l)

\* once the parser has left its loop the item list is final
Final == pc \in {"done", "csv"} => out' = out /\ pc' # "loop"

\* C1 (as stated): a line after the header that begins, case-insensitively,
\* with Subtotal, Sub-Total, Tax, Sales Tax, Total or Balance Due, or matches
\* ^INVOICE\b or ^Page \d+, ends row processing: that step creates no item and
\* changes none, and no later step does either.
C1_AnyStopPrefixEndsRows ==
    [][(AtLine /\ BeginsStop(Raw) => pc' = "done" /\ out' = out) /\ Final]_vars

\* C1 (amended): the same, for a line that begins with one of the stop words
\* as a whole word (the word is followed by a non-word character or the end
\* of the line), or matches ^INVOICE\b or ^Page \d+ in any letter case.
C1_StopEndsRows ==
    [][(AtLine /\ WholeStop(Raw) => pc' = "done" /\ out' = out) /\ Final]_vars

\* C1 witness: the loop broke at a stop line with an item already made and a
\* line that would tail-match still unread.
C1_Witness ==
    /\ mode = "rows" /\ pc = "done" /\ idx < Len(lines)
    /\ WholeStop(lines[idx + 1])
    /\ Len(out) > 0
    /\ \E j \in (idx + 2)..Len(lines) : Test(tailRe, lines[j])

\* C2: with items present, a non-stop line without a qty/money/money tail
\* leaves the number of items as it is and appends its trimmed text to the
\* description of the last item, after a single space when that description
\* is not empty; nothing else changes.
C2_Continuation ==
    [][AtLine /\ Len(out) > 0 /\ ~WholeStop(Raw) /\ ~Test(tailRe, Raw)
       => /\ Len(out') = Len(out)
          /\ \A k \in 1..(Len(out) - 1) : out'[k] = out[k]
          /\ LET was == out[Len(out)]
                 now == out'[Len(out)]
             IN /\ now.description =
                      (IF was.description # <<>> THEN was.description \o <<" ">> ELSE <<>>)
                      \o Trim(Raw)
                /\ now = [was EXCEPT !.description = now.description]]_vars

\* C2 witness: a tail-matched row was followed by a line without a tail, and
\* the item's description now ends with that line.
C2_Witness ==
    /\ ReadOne /\ idx > headerIdx + 2
    /\ Test(tailRe, lines[idx - 1]) /\ ~Test(tailRe, Prev)
    /\ Len(out) > 0
    /\ IsSuffix(<<" ">> \o Prev, out[Len(out)].description)

\* C3: every step keeps the items in place and in line order: the count never
\* decreases and grows by one at most, at the end; only the last item can
\* change, and only by a longer description that keeps the old one as a prefix.
C3_AppendOnly ==
    [][/\ Len(out') >= Len(out)
       /\ Len(out') <= Len(out) + 1
       /\ \A k \in 1..(Len(out) - 1) : out'[k] = out[k]
       /\ Len(out) > 0 =>
            LET was == out[Len(out)]
                now == out'[Len(out)]
            IN /\ IsPrefix(was.description, now.description)
               /\ now = [was EXCEPT !.description = now.description]]_vars

\* C3 witness: two items, the second of which has had a line folded into it.
C3_Witness ==
    /\ ReadOne /\ Len(out) >= 2
    /\ ~Test(tailRe, Prev)
    /\ IsSuffix(<<" ">> \o Prev, out[Len(out)].description)

Numeric(it) == it.qty # NULL /\ it.rate # NULL /\ it.amount # NULL
Blank(it) == it.qty = NULL /\ it.rate = NULL /\ it.amount = NULL
\* the whole line is a qty/money/money tail
OnlyNumbers(l) == LET m == Exec(tailRe, l) IN m.found /\ m.index = 1

\* C4: only the first item can lack its numbers, and then it lacks all three
\* for good; with items present no line seeds another item; a line that is
\* only the three numbers is not merged into the item before it but makes an
\* item of its own with empty activity and description.
C4_SeedStaysBlank ==
    /\ [](\A k \in DOMAIN out : IF k = 1 THEN Numeric(out[k]) \/ Blank(out[k])
                                         ELSE Numeric(out[k]))
    /\ [][/\ (Len(out) > 0 /\ Blank(out[1]) => Blank(out'[1]))
          /\ (AtLine /\ Len(out) > 0 /\ ~Test(tailRe, Raw) => Len(out') = Len(out))
          /\ (AtLine /\ Len(out) > 0 /\ ~WholeStop(Raw) /\ OnlyNumbers(Raw)
                => /\ Len(out') = Len(out) + 1
                   /\ out'[Len(out)] = out[Len(out)]
                   /\ out'[Len(out')].activity = <<>>
                   /\ out'[Len(out')].description = <<>>
                   /\ Numeric(out'[Len(out')]))]_vars

\* C4 witness: a seeded item followed by the item of a numbers-only line.
C4_Witness ==
    /\ ReadOne /\ Len(out) >= 2
    /\ Blank(out[1])
    /\ OnlyNumbers(Prev)
    /\ out[Len(out)].activity = <<>> /\ out[Len(out)].description = <<>>
    /\ Numeric(out[Len(out)])

TokenCh == Alnum \cup {".", "_", "-", "/"}
\* the length of the run of token characters a text starts with
RECURSIVE TokenRun(_, _)
TokenRun(s, k) == IF k < Len(s) /\ s[k + 1] \in TokenCh THEN TokenRun(s, k + 1) ELSE k
\* a leading token followed by white space and a rest
Splits(left) ==
    LET n == TokenRun(left, 0) IN n >= 1 /\ n < Len(left) /\ left[n + 1] \in Space
\* the text without the characters of cs
Without(s, cs) == SelectSeq(s, LAMBDA ch : ch \notin cs)
Num(ip, fr) == [neg |-> FALSE, ip |-> ip, fr |-> fr]

\* C5: a non-stop line after the header that ends with qty, money, money
\* appends exactly one item: its numbers are the values of the three tokens
\* ($ and commas stripped from the money), its text is the line cut where the
\* tail starts, split into a leading token (activity) and the rest
\* (description) when it splits so, else all description.  The line
\* "LBR Labor - site visit 2 50.00 100.00" gives LBR, "Labor - site visit",
\* 2, 50 and 100.
C5_TailRow ==
    [][AtLine /\ ~WholeStop(Raw)
       => \A m \in {Exec(tailRe, Raw)} :
            m.found =>
              /\ Len(out') = Len(out) + 1
              /\ SubSeq(out', 1, Len(out)) = out
              /\ \A it \in {out'[Len(out')]},
                    left \in {Trim(SubSeq(Raw, 1, m.index - 1))} :
                    /\ it.qty = Some(Number(Group(Raw, m, 1)))
                    /\ it.rate = Some(Number(Without(Group(Raw, m, 2), {"$", ","})))
                    /\ it.amount = Some(Number(Without(Group(Raw, m, 3), {"$", ","})))
                    /\ it.qty # Some(NaN) /\ it.rate # Some(NaN) /\ it.amount # Some(NaN)
                    /\ \A n \in {TokenRun(left, 0)} :
                          IF Splits(left)
                          THEN /\ it.activity = SubSeq(left, 1, n)
                               /\ it.description = Trim(SubSeq(left, n + 1, Len(left)))
                          ELSE it.activity = <<>> /\ it.description = left
                    /\ Raw = RowLabor =>
                         it = [activity |-> <<"L","B","R">>, description |-> <<"L","a","b","o","r"," ","-"," ","s","i","t","e"," ","v","i","s","i","t">>,
                               qty |-> Some(Num(2, <<>>)), rate |-> Some(Num(50, <<>>)),
                               amount |-> Some(Num(100, <<>>))]
                    /\ Raw = RowNumbers =>
                         /\ it.rate = Some(Num(1250, <<>>))
                         /\ it.amount = Some([neg |-> TRUE, ip |-> 5, fr |-> <<>>])
                    /\ Raw = RowParts =>
                         /\ it.description = <<"(","p","a","r","t","s",")"," ","b","o","l","t">>
                         /\ it.qty = Some(Num(1, <<"5">>))]_vars

\* C5 witness: the example row has just been read and made its item.
C5_Witness ==
    /\ ReadOne /\ Prev = RowLabor /\ Len(out) > 0
    /\ out[Len(out)].activity = <<"L","B","R">>
    /\ out[Len(out)].description = <<"L","a","b","o","r"," ","-"," ","s","i","t","e"," ","v","i","s","i","t">>
    /\ out[Len(out)].amount = Some(Num(100, <<>>))

\* the text contains w, in any letter case, from position i on
HasAtCI(l, w, i) ==
    i + Len(w) - 1 <= Len(l) /\ \A k \in DOMAIN w : ToLower(l[i + k - 1]) = ToLower(w[k])
ContainsCI(l, w) == \E i \in 1..Len(l) : HasAtCI(l, w, i)
ContainsWordCI(l, w) ==
    \E i \in 1..Len(l) : HasAtCI(l, w, i) /\ ~IsWordAt(l, i - 1) /\ ~IsWordAt(l, i + Len(w))
\* a line with all five keyword classes
FiveKeywords(l) ==
    /\ ContainsCI(l, <<"A","C","T","I","V","I","T","Y">>)
    /\ ContainsCI(l, <<"D","E","S","C","R","I","P","T","I","O","N">>)
    /\ ContainsWordCI(l, <<"Q","T","Y">>) \/ ContainsWordCI(l, <<"Q","U","A","N","T","I","T","Y">>)
    /\ ContainsWordCI(l, <<"R","A","T","E">>) \/ ContainsWordCI(l, <<"P","R","I","C","E">>)
    /\ ContainsWordCI(l, <<"A","M","O","U","N","T">>) \/ ContainsWordCI(l, <<"E","X","T">>) \/ ContainsWordCI(l, <<"T","O","T","A","L">>)
HeaderAt == {k \in DOMAIN lines : FiveKeywords(lines[k])}
CsvHeaderRow == <<"A","c","t","i","v","i","t","y",",","D","e","s","c","r","i","p","t","i","o","n",",","Q","t","y",",","R","a","t","e",",","A","m","o","u","n","t">>

\* C6: without a line that has all five keyword classes the locator returns
\* -1, the parser returns no items without entering its loop, and the
\* line-items CSV is its header row alone; with one, the locator returns the
\* lowest index of such a line and the parser reads only lines after it.
C6_HeaderGate ==
    mode = "rows" =>
      /\ pc \in {"locate", "parse"} => out = <<>>
      /\ pc # "locate" =>
           IF HeaderAt = {}
           THEN /\ headerIdx = -1
                /\ pc # "loop" /\ idx = 0 /\ out = <<>>
                /\ pc = "csv" => result = Some(CsvHeaderRow)
           ELSE /\ headerIdx + 1 \in HeaderAt
                /\ \A k \in HeaderAt : headerIdx + 1 <= k
                /\ pc # "parse" => /\ idx > headerIdx
                                   /\ Len(out) <= idx - (headerIdx + 1)

\* C6 witness: no header line, although a line nearly is one and another
\* would tail-match; the CSV is the header row.
C6_Witness ==
    /\ mode = "rows" /\ pc = "csv" /\ headerIdx = -1
    /\ result = Some(CsvHeaderRow)
    /\ \E k \in DOMAIN lines : lines[k] = NearHeaderLine
    /\ \E k \in DOMAIN lines : Test(tailRe, lines[k])

\* a line that ends no table, ends in no numbers and begins with no token
Discardable(l) == ~WholeStop(l) /\ ~Test(tailRe, l) /\ ~Splits(l)
\* the item list the loop makes of the lines from (1-based) position k on
RECURSIVE RowsFrom(_, _, _)
RowsFrom(ls, k, o) ==
    IF k > Len(ls) \/ WholeStop(ls[k]) THEN o
    ELSE RowsFrom(ls, k + 1, RowStep(o, ls[k]))
\* the first n lines below the header are all discardable
DiscardedRun(n) ==
    /\ headerIdx + 1 + n <= Len(lines)
    /\ \A k \in (headerIdx + 2)..(headerIdx + 1 + n) : Discardable(lines[k])

\* C13: with no item made yet, a non-stop line that neither ends in
\* qty/money/money nor begins with a token and white space (a single word,
\* say) makes no item and leaves the loop running with the list still empty;
\* the final list is the one the lines after it give on their own, so none of
\* its text is in any item and a later line still seeds or tail-matches.
C13_DiscardBeforeFirstItem ==
    /\ [][AtLine /\ out = <<>> /\ Discardable(Raw)
          => out' = <<>> /\ pc' = "loop" /\ idx' = idx + 1]_vars
    /\ [](mode = "rows" /\ pc = "done" /\ headerIdx >= 0
          => \A n \in 1..MaxRows :
                DiscardedRun(n) => out = RowsFrom(lines, headerIdx + 2 + n, <<>>))

\* C13 witness: the single word below the header was dropped, the line after
\* it seeded the first item and a later line made an item from its numbers
C13_Witness ==
    /\ mode = "rows" /\ pc = "done" /\ headerIdx >= 0
    /\ DiscardedRun(1) /\ ~DiscardedRun(2)
    /\ lines[headerIdx + 2] = RowWord
    /\ Len(out) = 2
    /\ Blank(out[1]) /\ Numeric(out[2])
    /\ out[1].activity \o <<" ">> \o out[1].description = lines[headerIdx + 3]

-----------------------------------------------------------------------------
(* Date extractor: parseDate and findDate *)

DateLabelWindow == 80
DateBareWindow == 50

dateSepRe == In({"/", "-"})
\* \d{1,2}[\/\-]\d{1,2}[\/\-]\d{2,4}
dateTokenRe ==
    Cat(<<Rep(In(Digit), 1, 2), dateSepRe, Rep(In(Digit), 1, 2), dateSepRe,
          Rep(In(Digit), 2, 4)>>)
\* /(\d{1,2})[\/\-](\d{1,2})[\/\-](\d{2,4})/
parseDateRe ==
    Cat(<<Grp(1, Rep(In(Digit), 1, 2)), dateSepRe, Grp(2, Rep(In(Digit), 1, 2)),
          dateSepRe, Grp(3, Rep(In(Digit), 2, 4))>>)
\* /(?:Invoice\s*Date|Date)\s*[:\-]?\s*(\d{1,2}[\/\-]\d{1,2}[\/\-]\d{2,4})/i
labeledDateRe ==
    Cat(<<Alt(<<Cat(<<LitI(<<"I","n","v","o","i","c","e">>), Star(In(Space)), LitI(<<"D","a","t","e">>)>>),
                LitI(<<"D","a","t","e">>)>>),
          Star(In(Space)), Opt(In({":", "-"})), Star(In(Space)),
          Grp(1, dateTokenRe)>>)
\* /(\d{1,2}[\/\-]\d{1,2}[\/\-]\d{2,4})/
bareDateRe == Grp(1, dateTokenRe)

\* String.prototype.padStart(n, "0")
padStart(s, n) == [k \in 1..(n - Len(s)) |-> "0"] \o s

\* parseDate of an optional text
parseDate(raw) ==
    IF raw = NULL \/ raw = Some(<<>>) THEN NULL
    ELSE LET m == Exec(parseDateRe, raw[1])
         IN IF ~m.found THEN NULL
            ELSE LET mm == Group(raw[1], m, 1)
                     dd == Group(raw[1], m, 2)
                     y0 == Group(raw[1], m, 3)
                     yy == ToNat(y0)
                     yyyy == IF Len(y0) = 2
                             THEN NatDigits(IF yy >= 70 THEN 1900 + yy ELSE 2000 + yy)
                             ELSE y0
                 IN Some(padStart(mm, 2) \o <<"/">> \o padStart(dd, 2) \o <<"/">> \o yyyy)

\* the first line among the first n that re matches: its position, 0 for none
FirstLine(re, ls, n) ==
    LET hits == {k \in 1..Min(n, Len(ls)) : Test(re, ls[k])}
    IN IF hits = {} THEN 0 ELSE Least(hits)

findDate(ls) ==
    LET a == FirstLine(labeledDateRe, ls, DateLabelWindow)
        b == FirstLine(bareDateRe, ls, DateBareWindow)
    IN IF a > 0 THEN parseDate(Some(Group(ls[a], Exec(labeledDateRe, ls[a]), 1)))
       ELSE IF b > 0 THEN parseDate(Some(Group(ls[b], Exec(bareDateRe, ls[b]), 1)))
       ELSE NULL

DateLabels == {<<>>, <<"I","n","v","o","i","c","e"," ","D","a","t","e",":"," ">>, <<"D","a","t","e"," ","-"," ">>, <<"D","u","e"," ">>}
Months == {<<"3">>, <<"1","2">>}
Days == {<<"4">>, <<"3","1">>}
Years == {<<"9","9">>, <<"0","5">>, <<"6","9">>, <<"7","0">>, <<"2","0","2">>, <<"2","0","2","3">>}
DateSeps == {"/", "-"}

\* a raw date, and a line holding one after a label
RawDates == {m \o <<sep>> \o d \o <<sep>> \o y :
                m \in Months, d \in Days, y \in Years, sep \in DateSeps}
DateLines == {l \o r : l \in DateLabels, r \in RawDates}

\* one dated line, and a few documents where the two passes compete or fail
DateDocs ==
    {<<l>> : l \in DateLines}
    \cup {<<<<"A","c","m","e"," ","C","o","r","p">>>>,
          <<<<"T","e","r","m","s"," ","3","0","/","6","0">>>>,
          <<<<"1","/","2","/","0","3">>, <<"I","n","v","o","i","c","e"," ","D","a","t","e",":"," ","4","/","5","/","2","0","0","6">>>>,
          <<<<"R","e","f"," ","1","0","-","1","1","-","1","2"," ","A">>, <<"O","r","d","e","r"," ","7","/","8","/","1","9","9","9">>>>,
          <<<<"U","p","d","a","t","e","d",":"," ","3","/","4","-","9","9">>>>,
          <<<<"I","N","V","O","I","C","E"," "," "," ","D","A","T","E",":","1","/","2","/","3","4","5","6","7">>>>}

InitDate ==
    /\ Idle("date")
    /\ \/ pc = "find" /\ lines \in DateDocs
       \/ pc = "parse" /\ lines \in {<<r>> : r \in RawDates \cup {<<>>, <<"n","/","a">>}}
    /\ headerIdx = -1
    /\ idx = 0
    /\ out = <<>>
    /\ result = NULL

\* const date = findDate(lines)
FindDate ==
    /\ mode = "date" /\ pc = "find"
    /\ result' = findDate(lines)
    /\ pc' = "done"
    /\ UNCHANGED <<mode, lines, headerIdx, idx, out, event, build, text, resp, trail, twin>>

\* parseDate(raw) on its own
ParseDate ==
    /\ mode = "date" /\ pc = "parse"
    /\ result' = parseDate(Some(lines[1]))
    /\ pc' = "done"
    /\ UNCHANGED <<mode, lines, headerIdx, idx, out, event, build, text, resp, trail, twin>>

NextDate == FindDate \/ ParseDate

SpecDate == InitDate /\ [][NextDate]_vars

-----------------------------------------------------------------------------
(* Properties of the date extractor *)

\* two digits, a slash, two digits, a slash, four digits
CanonicalDate(s) ==
    /\ Len(s) = 10
    /\ s[3] = "/" /\ s[6] = "/"
    /\ \A k \in {1, 2, 4, 5, 7, 8, 9, 10} : s[k] \in Digit

\* the digits after the last separator of a line that ends with its date
YearOf(l) ==
    LET seps == {k \in DOMAIN l : l[k] \in DateSeps}
    IN SubSeq(l, (CHOOSE k \in seps : \A j \in seps : j <= k) + 1, Len(l))

\* C9: a date returned by the date extractor is always two digits, slash,
\* two digits, slash, four digits, whatever raw date its patterns accepted
\* (1-2 digit month and day, 2-4 digit year, slash or dash); a two-digit year
\* yy gives 19yy when yy >= 70 and 20yy otherwise.
C9_CanonicalDate ==
    mode = "date" /\ pc = "done" /\ result # NULL
    => /\ CanonicalDate(result[1])
       /\ \A l \in DateLines :
            lines = <<l>> /\ Len(YearOf(l)) = 2
            => SubSeq(result[1], 7, 10) =
                 (IF ToNat(YearOf(l)) >= 70 THEN <<"1","9">> ELSE <<"2","0">>) \o YearOf(l)

-----------------------------------------------------------------------------
(* Customer extractor: findCustomer *)

CustomerWindow == 40

custLabelRe == Alt(<<LitI(<<"C","u","s","t","o","m","e","r">>), LitI(<<"B","i","l","l"," ","T","o">>), LitI(<<"S","o","l","d"," ","T","o">>)>>)
\* /^(?:Customer|Bill To|Sold To)\s*:\s*(.+)$/i
custColonRe ==
    Cat(<<Bol, custLabelRe, Star(In(Space)), Ch(":"), Star(In(Space)),
          Grp(1, Plus(Dot)), Eol>>)
\* /^(?:Customer|Bill To|Sold To)\s+(.+)$/i
custSpaceRe == Cat(<<Bol, custLabelRe, Plus(In(Space)), Grp(1, Plus(Dot)), Eol>>)
\* /Bill To|Sold To|Customer/i
custKeywordRe == Alt(<<LitI(<<"B","i","l","l"," ","T","o">>), LitI(<<"S","o","l","d"," ","T","o">>), LitI(<<"C","u","s","t","o","m","e","r">>)>>)
\* /^(Address|Phone|Email|Fax|Attn|City|State|Zip)[:\s]/i
addressLabelRe ==
    Cat(<<Bol,
          Grp(1, Alt(<<LitI(<<"A","d","d","r","e","s","s">>), LitI(<<"P","h","o","n","e">>), LitI(<<"E","m","a","i","l">>),
                       LitI(<<"F","a","x">>), LitI(<<"A","t","t","n">>), LitI(<<"C","i","t","y">>),
                       LitI(<<"S","t","a","t","e">>), LitI(<<"Z","i","p">>)>>)),
          In({":"} \cup Space)>>)

\* the marker match of a line: the colon pattern first, then the space pattern
custMarker(l) ==
    LET m == Exec(custColonRe, l)
    IN IF m.found THEN m ELSE Exec(custSpaceRe, l)

findCustomer(ls) ==
    LET top == Slice0(ls, CustomerWindow)
        marked == {k \in DOMAIN top : custMarker(top[k]).found}
        keyed == {k \in DOMAIN ls : Test(custKeywordRe, ls[k])}
    IN IF marked # {}
       THEN LET l == top[Least(marked)]
            IN Some(Trim(Group(l, custMarker(l), 1)))
       ELSE IF keyed = {} THEN NULL
       ELSE LET index == Least(keyed) - 1
                \* for (i = idx + 1; i < Math.min(idx + 5, lines.length); i++)
                after == {i \in (index + 1)..(Min(index + 5, Len(ls)) - 1) :
                             /\ ~Test(addressLabelRe, ls[i + 1])
                             /\ Len(ls[i + 1]) > 3}
            IN IF after = {} THEN NULL ELSE Some(Trim(ls[Least(after) + 1]))

Filler == <<"n","/","a">>
\* CustomerWindow filler lines with line k (1-based) replaced by l
TopWith(k, l) == [j \in 1..CustomerWindow |-> IF j = k THEN l ELSE Filler]

\* the first CustomerWindow lines: nothing, a marker, a keyword near the end
\* of the window and at its very end
CustomerTops ==
    {TopWith(0, Filler),
     TopWith(3, <<"C","u","s","t","o","m","e","r",":"," ","A","c","m","e"," ","C","o","r","p">>),
     TopWith(CustomerWindow - 2, <<"S","h","i","p"," ","a","n","d"," ","B","i","l","l"," ","T","o">>),
     TopWith(CustomerWindow, <<"S","O","L","D"," ","T","O">>)}

\* the lines after the window
CustomerRests ==
    {<<>>,
     <<<<"A","c","m","e"," ","C","o","r","p">>>>,
     <<<<"B","i","l","l"," ","T","o">>, <<"B","e","t","a"," ","L","L","C">>>>,
     <<<<"P","h","o","n","e",":"," ","5","5","5">>, <<"G","a","m","m","a"," ","I","n","c">>>>,
     <<<<"C","u","s","t","o","m","e","r",":"," ","D","e","l","t","a">>>>,
     <<Filler, <<"S","o","l","d"," ","T","o">>, <<"A","d","d","r","e","s","s",":"," ","1"," ","M","a","i","n">>, <<"Z","i","p"," ","6","2","7","0","4">>, <<"E","p","s","i","l","o","n"," ","C","o"," "," ">>>>}

InitCustomer ==
    /\ mode = "customer"
    /\ pc = "find"
    /\ \E top \in CustomerTops : \E r1 \in CustomerRests, r2 \in CustomerRests :
          lines = top \o r1 /\ twin = top \o r2
    /\ headerIdx = -1
    /\ idx = 0
    /\ out = <<>>
    /\ result = NULL
    /\ event = NULL
    /\ build = "none"
    /\ text = NULL
    /\ resp = NULL
    /\ trail = <<>>

\* const customer = findCustomer(lines), on each of the two line sequences
FindCustomer ==
    /\ mode = "customer" /\ pc = "find"
    /\ result' = <<findCustomer(lines), findCustomer(twin)>>
    /\ pc' = "done"
    /\ UNCHANGED <<mode, lines, headerIdx, idx, out, event, build, text, resp, trail, twin>>

NextCustomer == FindCustomer

SpecCustomer == InitCustomer /\ [][NextCustomer]_vars

-----------------------------------------------------------------------------
(* Properties of the customer extractor *)

\* C10: the customer extractor reads the first 40 lines only: two line
\* sequences that agree on their first 40 lines get the same result, so a
\* Customer / Bill To / Sold To line after line 40, or the lines following
\* such a line, never yield a customer, in either pass.
C10_First40Decide ==
    mode = "customer" /\ pc = "done"
    /\ Slice0(lines, CustomerWindow) = Slice0(twin, CustomerWindow)
    => result[1] = result[2]

-----------------------------------------------------------------------------
(* The request handler.                                                     *)
(*                                                                          *)
(* Two files hold it.  netlify/functions/export_csv_zip.js (build "esm")    *)
(* declares `const zip` twice in the handler's try block, a SyntaxError, so *)
(* the module never loads.  unnamed/part_000 (build "cjs") has the archive  *)
(* renamed, but every backslash of its patterns doubled: its text helpers   *)
(* look for a literal backslash, the class [A-Za-z0-9._\\-/] of a pattern   *)
(* literal has a range out of order (an early error, which an engine may    *)
(* report when the module loads), and the tail pattern it builds at run     *)
(* time quantifies a $ and does not compile.                                *)

\* String.prototype.includes
Includes(s, sub) == LastIndexOf(s, sub) >= 0

\* String.prototype.split on a separator text
RECURSIVE SplitOn(_, _)
SplitOn(s, sep) ==
    LET at == {j \in 1..(Len(s) - Len(sep) + 1) : SubSeq(s, j, j + Len(sep) - 1) = sep}
    IN IF at = {} THEN <<s>>
       ELSE <<SubSeq(s, 1, Least(at) - 1)>>
            \o SplitOn(SubSeq(s, Least(at) + Len(sep), Len(s)), sep)

\* JSON.parse, for the texts a request body of the model can be: null, or an
\* object whose members are strings without escapes; anything else here is
\* no JSON text.
JsonSpace == In({" ", "\t", "\n", "\r"})
jsonStringRe == Cat(<<Ch("\""), Star(NotIn({"\"", "\\"})), Ch("\"")>>)
jsonMemberRe == Cat(<<jsonStringRe, Star(JsonSpace), Ch(":"), Star(JsonSpace), jsonStringRe>>)
jsonObjectRe ==
    Cat(<<Bol, Star(JsonSpace), Ch("{"), Star(JsonSpace),
          Opt(Cat(<<jsonMemberRe,
                    Star(Cat(<<Star(JsonSpace), Ch(","), Star(JsonSpace), jsonMemberRe>>))>>)),
          Star(JsonSpace), Ch("}"), Star(JsonSpace), Eol>>)
jsonNullRe == Cat(<<Bol, Star(JsonSpace), Lit(<<"n","u","l","l">>), Star(JsonSpace), Eol>>)
jsonMemberOf(key) ==
    Cat(<<Ch("\""), Lit(key), Ch("\""), Star(JsonSpace), Ch(":"), Star(JsonSpace),
          Ch("\""), Grp(1, Star(NotIn({"\"", "\\"}))), Ch("\"")>>)

\* the member of a parsed object text, NULL when it has none (undefined)
Member(t, key) ==
    LET m == Exec(jsonMemberOf(key), t)
    IN IF m.found THEN Some(Group(t, m, 1)) ELSE NULL

JSONparse(t) ==
    IF Test(jsonNullRe, t) THEN [ok |-> TRUE, null |-> TRUE, base64 |-> NULL]
    ELSE IF Test(jsonObjectRe, t)
         THEN [ok |-> TRUE, null |-> FALSE, base64 |-> Member(t, <<"b","a","s","e","6","4">>)]
    ELSE [ok |-> FALSE, null |-> FALSE, base64 |-> NULL]

\* part_000's cleanLines: .replace(/\\r/g, "").split("\\n").map(l =>
\* l.replace(/\\u00A0/g, " ").replace(/\\s+$/g, "").replace(/^\\s+/g, ""))
\* .filter(l => l.length > 0)
cleanLine(l) ==
    ReplaceAll(Cat(<<Bol, Ch("\\"), Plus(Ch("s"))>>),
               ReplaceAll(Cat(<<Ch("\\"), Plus(Ch("s")), Eol>>),
                          ReplaceAll(Lit(<<"\\","u","0","0","A","0">>), l, <<" ">>),
                          <<>>),
               <<>>)
cleanLines(t) ==
    LET parts == SplitOn(ReplaceAll(Lit(<<"\\","r">>), t, <<>>), <<"\\","n">>)
    IN SelectSeq([k \in DOMAIN parts |-> cleanLine(parts[k])], LAMBDA l : Len(l) > 0)

\* part_000's findTableStart: /ACTIVITY/i, /DESCRIPTION/i,
\* /\\bQTY\\b|\\bQUANTITY\\b/i, /\\bRATE\\b|\\bPRICE\\b/i,
\* /\\bAMOUNT\\b|\\bEXT\\.?\\b|\\bTOTAL\\b/i
IsEscapedHeaderLine(l) ==
    /\ Test(headerRe, l)
    /\ Test(descRe, l)
    /\ Test(Alt(<<LitI(<<"\\","b","Q","T","Y","\\","b">>), LitI(<<"\\","b","Q","U","A","N","T","I","T","Y","\\","b">>)>>), l)
    /\ Test(Alt(<<LitI(<<"\\","b","R","A","T","E","\\","b">>), LitI(<<"\\","b","P","R","I","C","E","\\","b">>)>>), l)
    /\ Test(Alt(<<LitI(<<"\\","b","A","M","O","U","N","T","\\","b">>),
                  Cat(<<LitI(<<"\\","b","E","X","T","\\">>), Opt(Dot), LitI(<<"\\","b">>)>>),
                  LitI(<<"\\","b","T","O","T","A","L","\\","b">>)>>), l)
findEscapedTableStart(ls) ==
    LET at == {i \in 0..(Len(ls) - 1) : IsEscapedHeaderLine(ls[i + 1])}
    IN IF at = {} THEN -1 ELSE Least(at)

\* part_000's MONEY_RE and QTY_RE as the RegExp constructor reads them
escapedQtyRe ==
    Cat(<<Ch("\\"), Plus(Ch("d")),
          Opt(Cat(<<Ch("\\"), Dot, Ch("\\"), Plus(Ch("d"))>>))>>)
escapedMoneyRe ==
    Alt(<<Cat(<<Opt(Ch("-")), Ch("\\"), Opt(Eol), Ch("\\"), Rep(Ch("d"), 1, 3),
                Star(Cat(<<Ch(","), Ch("\\"), Rep(Ch("d"), 3, 3)>>)),
                Opt(Cat(<<Ch("\\"), Dot, Ch("\\"), Rep(Ch("d"), 2, 2)>>))>>),
          Cat(<<Opt(Ch("-")), Ch("\\"), Opt(Eol), Ch("\\"), Plus(Ch("d")),
                Opt(Cat(<<Ch("\\"), Dot, Ch("\\"), Rep(Ch("d"), 2, 2)>>))>>)>>)
\* new RegExp(String.raw`(${QTY_RE})\\s+(${MONEY_RE})\\s+(${MONEY_RE})$`)
escapedTailRe ==
    Cat(<<Grp(1, escapedQtyRe), Ch("\\"), Plus(Ch("s")), Grp(2, escapedMoneyRe),
          Ch("\\"), Plus(Ch("s")), Grp(3, escapedMoneyRe), Eol>>)

\* the RegExp constructor accepts a pattern: no quantifier on ^, $ or \b
RECURSIVE Compiles(_)
Compiles(re) ==
    CASE re.t \in {"cat", "alt"} -> \A k \in DOMAIN re.rs : Compiles(re.rs[k])
      [] re.t = "rep" -> re.r.t \notin {"bol", "eol", "wb"} /\ Compiles(re.r)
      [] re.t = "grp" -> Compiles(re.r)
      [] OTHER -> TRUE

JsonType == <<"a","p","p","l","i","c","a","t","i","o","n","/","j","s","o","n">>
ContentTypes == {NULL, Some(<<"t","e","x","t","/","p","l","a","i","n">>), Some(JsonType), Some(JsonType \o <<";"," ","c","h","a","r","s","e","t","=","u","t","f","-","8">>)}
Bodies ==
    {NULL, Some(<<>>), Some(<<"{","}">>), Some(<<"n","u","l","l">>), Some(<<"%","P","D","F","-","1",".","4">>),
     Some(<<"{","\"","b","a","s","e","6","4","\"",":","\"","\"","}">>),
     Some(<<"{","\"","f","i","l","e","n","a","m","e","\"",":","\"","a",".","p","d","f","\"","}">>),
     Some(<<"{","\"","b","a","s","e","6","4","\"",":","\"","J","V","B","E","R","i","0","=","\"","}">>),
     Some(<<"{"," ","\"","f","i","l","e","n","a","m","e","\"",":"," ","\"","a",".","p","d","f","\"",","," ","\"","b","a","s","e","6","4","\"",":"," ","\"","J","V","B","E","R","i","0","=","\""," ","}">>)}
Events == [ctype : ContentTypes, body : Bodies]

\* what the PDF collaborator can hand back as data.text
RawTexts ==
    {NULL,
     Some(<<>>),
     Some(<<"B","i","l","l"," ","T","o",":"," ","A","c","m","e","\r","\n","A","C","T","I","V","I","T","Y"," ","D","E","S","C","R","I","P","T","I","O","N"," ","Q","T","Y"," ","R","A","T","E"," ","A","M","O","U","N","T","\n","L","B","R"," ","L","a","b","o","r"," ","2"," ","5","0",".","0","0"," ","1","0","0",".","0","0","\n">>),
     Some(<<" "," ","I","n","v","o","i","c","e"," ","1","2","\\","r","\\","n","\\","s","\\","n","\\","u","0","0","A","0","S","o","l","d"," ","T","o"," ","B","e","t","a","\\","s","s">>),
     Some(<<"A","C","T","I","V","I","T","Y"," ","D","E","S","C","R","I","P","T","I","O","N"," ","\\","b","Q","T","Y","\\","b"," ","\\","b","R","A","T","E","\\","b"," ","\\","b","A","M","O","U","N","T","\\","b","\\","n","L","B","R"," ","L","a","b","o","r"," ","2"," ","5","0",".","0","0"," ","1","0","0",".","0","0">>),
     Some(<<"P","a","g","e"," ","1","\\","n","a","c","t","i","v","i","t","y"," ","d","e","s","c","r","i","p","t","i","o","n"," ","\\","b","q","u","a","n","t","i","t","y","\\","b"," ","\\","b","p","r","i","c","e","\\","b"," ","\\","b","e","x","t","\\",".","\\","b">>)}

SendJson == "Send JSON: { filename, mimeType, base64 }"
MissingBase64 == "Missing 'base64' PDF content"
EntryNames == <<"invoice_header.csv", "invoice_lines.csv">>

ErrorResponse(code, message) ==
    [statusCode |-> code, contentType |-> NULL, entries |-> <<>>, error |-> Some(message)]
ZipResponse ==
    [statusCode |-> 200, contentType |-> Some("application/zip"), entries |-> EntryNames,
     error |-> NULL]

InitHandler ==
    /\ mode = "handler"
    /\ pc = "load"
    /\ build \in {"esm", "cjs"}
    /\ event \in Events
    /\ text = NULL
    /\ lines = <<>>
    /\ headerIdx = -1
    /\ idx = 0
    /\ out = <<>>
    /\ result = NULL
    /\ resp = NULL
    /\ trail = <<>>
    /\ twin = <<>>

\* the module does not load: `zip` declared twice (esm), or the pattern
\* literal with the class range out of order reported at load (cjs)
LoadFails ==
    /\ mode = "handler" /\ pc = "load"
    /\ result' = Some(IF build = "esm"
                      THEN "SyntaxError: Identifier 'zip' has already been declared"
                      ELSE "SyntaxError: Invalid regular expression: Range out of order in character class")
    /\ pc' = "crashed"
    /\ UNCHANGED <<mode, lines, headerIdx, idx, out, event, build, text, resp, trail, twin>>

\* the cjs module loads on an engine that compiles pattern literals lazily
LoadOk ==
    /\ mode = "handler" /\ pc = "load"
    /\ build = "cjs"
    /\ pc' = "entry"
    /\ UNCHANGED <<mode, lines, headerIdx, idx, out, result, event, build, text, resp, trail, twin>>

\* const isJson = event.headers["content-type"]?.includes("application/json");
\* if (!isJson) return 400
CheckJson ==
    /\ mode = "handler" /\ pc = "entry"
    /\ IF event.ctype # NULL /\ Includes(event.ctype[1], JsonType)
       THEN pc' = "body" /\ resp' = resp
       ELSE pc' = "returned" /\ resp' = Some(ErrorResponse(400, SendJson))
    /\ UNCHANGED <<mode, lines, headerIdx, idx, out, result, event, build, text, trail, twin>>

\* const body = JSON.parse(event.body || "{}"); const { base64 } = body;
\* if (!base64) return 400
ParseBody ==
    /\ mode = "handler" /\ pc = "body"
    /\ LET t == IF event.body = NULL \/ event.body = Some(<<>>) THEN <<"{","}">> ELSE event.body[1]
           body == JSONparse(t)
       IN IF ~body.ok
          THEN pc' = "catch" /\ resp' = resp
               /\ result' = Some("SyntaxError: Unexpected token in JSON")
          ELSE IF body.null
          THEN pc' = "catch" /\ resp' = resp
               /\ result' = Some("TypeError: Cannot destructure 'body' as it is null")
          ELSE IF body.base64 = NULL \/ body.base64 = Some(<<>>)
          THEN pc' = "returned" /\ resp' = Some(ErrorResponse(400, MissingBase64))
               /\ result' = result
          ELSE pc' = "extract" /\ resp' = resp /\ result' = result
    /\ UNCHANGED <<mode, lines, headerIdx, idx, out, event, build, text, trail, twin>>

\* const data = await pdf(pdfBuf): the collaborator returns a text or throws
Extract ==
    /\ mode = "handler" /\ pc = "extract"
    /\ trail' = Append(trail, "pdf")
    /\ \/ \E t \in RawTexts : text' = t /\ pc' = "parse" /\ result' = result
       \/ text' = text /\ pc' = "catch" /\ result' = Some("Invalid PDF structure")
    /\ UNCHANGED <<mode, lines, headerIdx, idx, out, event, build, resp, twin>>

\* rawText = data.text || ""; lines = cleanLines(rawText); the five field
\* extractors; headerIdx = findTableStart(lines); items = parseLines(lines,
\* headerIdx), which returns [] without a header and else builds its tail
\* pattern first
Parse ==
    /\ mode = "handler" /\ pc = "parse"
    /\ lines' = cleanLines(IF text = NULL THEN <<>> ELSE text[1])
    /\ headerIdx' = findEscapedTableStart(lines')
    /\ out' = <<>>
    /\ trail' = trail \o <<"cleanLines", "findCustomer", "findInvoice", "findDate",
                           "findRep", "findZip", "findTableStart", "parseLines">>
    /\ IF headerIdx' < 0 \/ Compiles(escapedTailRe)
       THEN pc' = "package" /\ result' = result
       ELSE pc' = "catch"
            /\ result' = Some("Invalid regular expression: Nothing to repeat")
    /\ UNCHANGED <<mode, idx, event, build, text, resp, twin>>

\* the two CSV texts go into the archive; return 200
Package ==
    /\ mode = "handler" /\ pc = "package"
    /\ trail' = Append(trail, "zip")
    /\ resp' = Some(ZipResponse)
    /\ pc' = "returned"
    /\ UNCHANGED <<mode, lines, headerIdx, idx, out, result, event, build, text, twin>>

\* catch (err): return 500 with String(err?.message || err)
Catch ==
    /\ mode = "handler" /\ pc = "catch"
    /\ resp' = Some(ErrorResponse(500, result[1]))
    /\ pc' = "returned"
    /\ UNCHANGED <<mode, lines, headerIdx, idx, out, result, event, build, text, trail, twin>>

NextHandler ==
    LoadFails \/ LoadOk \/ CheckJson \/ ParseBody \/ Extract \/ Parse \/ Package \/ Catch

SpecHandler == InitHandler /\ [][NextHandler]_vars

-----------------------------------------------------------------------------
(* Properties of the handler *)

\* the request is not tagged as JSON, or its body is no JSON text
NotJson ==
    \/ event.ctype = NULL
    \/ ~Includes(event.ctype[1], JsonType)
    \/ event.body # NULL /\ event.body # Some(<<>>)
         /\ ~Test(jsonNullRe, event.body[1]) /\ ~Test(jsonObjectRe, event.body[1])
\* the body carries no base64 text
LacksPayload ==
    \/ event.body = NULL
    \/ ~Includes(event.body[1], <<"\"","b","a","s","e","6","4","\"">>)
    \/ Includes(event.body[1], <<"\"","b","a","s","e","6","4","\"",":","\"","\"">>)
Malformed == NotJson \/ LacksPayload
ClientError(r) == r.statusCode >= 400 /\ r.statusCode <= 499
ErrorPayload(r) == r.error # NULL /\ r.entries = <<>> /\ r.contentType = NULL
FullZip(r) ==
    /\ r.statusCode = 200
    /\ r.contentType = Some("application/zip")
    /\ r.entries = EntryNames
    /\ r.error = NULL

\* C7: a malformed request (not JSON, or without the base64 payload) is
\* answered with a client error (4xx) carrying one error message, before the
\* PDF collaborator or any parsing step has been invoked, with different
\* messages for the two causes; never with a 5xx.
C7_MalformedIsClientError ==
    mode = "handler" /\ pc = "returned" /\ Malformed
    => /\ resp # NULL
       /\ ClientError(resp[1])
       /\ ErrorPayload(resp[1])
       /\ trail = <<>>
       /\ resp[1].error = Some(IF NotJson THEN SendJson ELSE MissingBase64)

\* C8: a well-formed request whose text extraction completed ends with the
\* full ZIP response (200, ZIP content type, both CSV entries) whatever the
\* text was; every invocation ends with a full ZIP or with an error payload;
\* and a 500 only follows an exception raised in the pipeline.
C8_WellFormedSucceeds ==
    mode = "handler" /\ pc \in {"returned", "crashed"}
    => /\ resp # NULL
       /\ FullZip(resp[1]) \/ ErrorPayload(resp[1])
       /\ ~Malformed /\ "cleanLines" \in Range(trail) => FullZip(resp[1])
       /\ resp[1].statusCode = 500 => result # NULL


-----------------------------------------------------------------------------
(* Header CSV: the header record and its two-row CSV text *)

\* header.customer ?? "" (?? leaves every text, the empty one included, alone)
OrEmpty(v) == IF v = NULL THEN Some(<<>>) ELSE v

headerCsvRows(header) ==
    <<<<Some(<<"C","u","s","t","o","m","e","r">>), Some(<<"R","e","p">>), Some(<<"D","a","t","e">>), Some(<<"I","n","v","o","i","c","e">>),
        Some(<<"Z","i","p">>)>>,
      <<OrEmpty(header.customer), OrEmpty(header.rep), OrEmpty(header.date),
        OrEmpty(header.invoice), OrEmpty(header.zip)>>>>

\* field values: absent, empty, plain, and with every character the encoder
\* treats specially, alone and next to each other
CsvFields ==
    {NULL, Some(<<>>), Some(<<"A","c","m","e"," ","C","o","r","p">>), Some(<<"A","c","m","e",","," ","I","n","c",".">>),
     Some(<<"6","\""," ","p","i","p","e">>), Some(<<"\"","A","c","m","e","\"">>), Some(<<"\"">>), Some(<<"\"","\"">>),
     Some(<<",">>), Some(<<"\"",",","\"">>), Some(<<"a","\n","b">>), Some(<<"a","\r","b",",","\"","c","\"","\n">>)}
CsvFewFields == {NULL, Some(<<"J","."," ","D","o","e">>), Some(<<",","\"">>), Some(<<" ","x","\r","\n">>)}

InitCsv ==
    /\ Idle("csv")
    /\ pc = "encode"
    /\ \E c \in CsvFields, r \in CsvFewFields, d \in {NULL, Some(<<"0","3","/","0","4","/","2","0","2","3">>)},
          i \in {NULL, Some(<<"A",",","\"","1","\"">>)}, z \in CsvFields :
          out = [customer |-> c, rep |-> r, date |-> d, invoice |-> i, zip |-> z]
    /\ lines = <<>>
    /\ headerIdx = -1
    /\ idx = 0
    /\ result = NULL

\* headerCsv = headerCsvRows.map(r => r.map(escapeCsv).join(",")).join("\n")
EncodeHeader ==
    /\ mode = "csv" /\ pc = "encode"
    /\ result' = Some(CsvText(headerCsvRows(out)))
    /\ pc' = "done"
    /\ UNCHANGED <<mode, lines, headerIdx, idx, out, event, build, text, resp, trail, twin>>

NextCsv == EncodeHeader

SpecCsv == InitCsv /\ [][NextCsv]_vars

-----------------------------------------------------------------------------
(* Properties of the header CSV *)

Quote == "\""
\* the number of double quotes of s before position k
QuotesBefore(s, k) == Cardinality({j \in 1..(k - 1) : s[j] = Quote})
\* the n-th element of a finite set of integers, in increasing order
Nth(S, n) == CHOOSE x \in S : Cardinality({y \in S : y <= x}) = n
\* s split at the commas that stand outside double quotes
SplitRow(s) ==
    LET seps == {k \in DOMAIN s : s[k] = "," /\ QuotesBefore(s, k) % 2 = 0}
        cut == [n \in 0..(Cardinality(seps) + 1) |->
                  IF n = 0 THEN 0
                  ELSE IF n = Cardinality(seps) + 1 THEN Len(s) + 1
                  ELSE Nth(seps, n)]
    IN [n \in 1..(Cardinality(seps) + 1) |-> SubSeq(s, cut[n - 1] + 1, cut[n] - 1)]
Quoted(f) == Len(f) >= 2 /\ f[1] = Quote /\ f[Len(f)] = Quote
\* a split field without its enclosing quotes, doubled quotes read as one
Unquote(f) ==
    IF ~Quoted(f) THEN f
    ELSE LET inner == SubSeq(f, 2, Len(f) - 1)
             kept == {k \in DOMAIN inner :
                         inner[k] # Quote \/ QuotesBefore(inner, k + 1) % 2 = 0}
         IN [n \in 1..Cardinality(kept) |-> inner[Nth(kept, n)]]
HeaderFields == <<out.customer, out.rep, out.date, out.invoice, out.zip>>
HeaderRowText == <<"C","u","s","t","o","m","e","r",",","R","e","p",",","D","a","t","e",",","I","n","v","o","i","c","e",",","Z","i","p","\n">>
\* the data row of the header CSV: what follows the first row and its line feed
DataRow == SubSeq(result[1], Len(HeaderRowText) + 1, Len(result[1]))
HasSpecial(v) == \E k \in DOMAIN v : v[k] \in {",", "\r", "\n", Quote}

\* C12: the data row of an encoded header record, split at the commas outside
\* double quotes and with doubled quotes read as one, gives back the five
\* field values (an absent field as the empty text); a field is enclosed in
\* double quotes exactly when its value holds a comma, CR, LF or double quote.
C12_HeaderRoundTrip ==
    mode = "csv" /\ pc = "done"
    => /\ SubSeq(result[1], 1, Len(HeaderRowText)) = HeaderRowText
       /\ \A row \in {SplitRow(DataRow)} :
            /\ Len(row) = 5
            /\ \A k \in 1..5 : \A v \in {OrEmpty(HeaderFields[k])[1]} :
                 /\ Unquote(row[k]) = v
                 /\ Quoted(row[k]) <=> HasSpecial(v)

\* a record with an absent field, and a field holding a double quote, a comma
\* and a line break, has been encoded
C12_Witness ==
    /\ mode = "csv" /\ pc = "done"
    /\ out.customer = NULL
    /\ out.rep = Some(<<",","\"">>)
    /\ out.zip # NULL
    /\ \E k \in DOMAIN out.zip[1] : out.zip[1][k] = "\n"
    /\ \E k \in DOMAIN out.zip[1] : out.zip[1][k] = Quote
    /\ \E k \in DOMAIN out.zip[1] : out.zip[1][k] = ","
    /\ Len(SplitRow(DataRow)) = 5
    /\ Unquote(SplitRow(DataRow)[5]) = out.zip[1]

-----------------------------------------------------------------------------
(* ZIP extractor: findZip *)

ZipWindow == 50

usStates ==
    <<<<"A","L">>, <<"A","K">>, <<"A","Z">>, <<"A","R">>, <<"C","A">>, <<"C","O">>, <<"C","T">>, <<"D","E">>, <<"F","L">>, <<"G","A">>,
      <<"H","I">>, <<"I","D">>, <<"I","L">>, <<"I","N">>, <<"I","A">>, <<"K","S">>, <<"K","Y">>, <<"L","A">>, <<"M","E">>, <<"M","D">>,
      <<"M","A">>, <<"M","I">>, <<"M","N">>, <<"M","S">>, <<"M","O">>, <<"M","T">>, <<"N","E">>, <<"N","V">>, <<"N","H">>, <<"N","J">>,
      <<"N","M">>, <<"N","Y">>, <<"N","C">>, <<"N","D">>, <<"O","H">>, <<"O","K">>, <<"O","R">>, <<"P","A">>, <<"R","I">>, <<"S","C">>,
      <<"S","D">>, <<"T","N">>, <<"T","X">>, <<"U","T">>, <<"V","T">>, <<"V","A">>, <<"W","A">>, <<"W","V">>, <<"W","I">>, <<"W","Y">>>>

\* new RegExp(`\\b(?:${usStates.join("|")})\\b`)
STATE_RE == Cat(<<WordB, Alt([k \in DOMAIN usStates |-> Lit(usStates[k])]), WordB>>)
\* /\b(\d{5}(?:-\d{4})?)\b/
zipRe ==
    Cat(<<WordB,
          Grp(1, Cat(<<Rep(In(Digit), 5, 5),
                       Opt(Cat(<<Ch("-"), Rep(In(Digit), 4, 4)>>))>>)),
          WordB>>)

\* the second pass of findZip reading the first lines from the front
findZipFirstBare(ls) ==
    LET top == Slice0(ls, ZipWindow)
        both == {k \in DOMAIN top : Test(STATE_RE, top[k]) /\ Test(zipRe, top[k])}
        any == {k \in DOMAIN top : Test(zipRe, top[k])}
    IN IF both # {}
       THEN LET l == top[Least(both)] IN Some(Group(l, Exec(zipRe, l), 1))
       ELSE IF any # {}
       THEN LET l == top[Least(any)] IN Some(Group(l, Exec(zipRe, l), 1))
       ELSE NULL

findZip(ls) ==
    LET top == Slice0(ls, ZipWindow)
        \* for (const l of lines.slice(0, 50)) if (STATE_RE.test(l) && zipRe.test(l))
        both == {k \in DOMAIN top : Test(STATE_RE, top[k]) /\ Test(zipRe, top[k])}
        \* for (const l of lines.slice(0, 50).reverse())
        any == {k \in DOMAIN top : Test(zipRe, top[k])}
    IN IF both # {}
       THEN LET l == top[Least(both)] IN Some(Group(l, Exec(zipRe, l), 1))
       ELSE IF any # {}
       THEN LET l == top[-Least({-k : k \in any})] IN Some(Group(l, Exec(zipRe, l), 1))
       ELSE NULL

\* lines with a state and a ZIP, a bare ZIP, a state alone, and near misses
ZipLines ==
    {<<"S","p","r","i","n","g","f","i","e","l","d",","," ","I","L"," ","6","2","7","0","4">>,
     <<"A","u","s","t","i","n"," ","T","X"," ","7","8","7","0","1","-","1","2","3","4"," ","o","r"," ","9","0","2","1","0">>,
     <<"P","O"," ","B","o","x"," ","1","2","3","4","5">>,
     <<"R","e","f"," ","6","0","6","0","1","-","1","2"," ","a","n","d"," ","1","0","0","0","1","-","0","0","0","1">>,
     <<"i","l"," ","6","0","6","0","2">>,
     <<"S","h","i","p"," ","t","o"," ","C","A">>,
     <<"T","X","T"," ","1","2","3","4","5","6","7">>,
     Filler}

\* ZipWindow filler lines with lines j and k replaced
ZipTop(j, a, k, b) ==
    [n \in 1..ZipWindow |-> IF n = j THEN a ELSE IF n = k THEN b ELSE Filler]

\* a short document, and full windows followed by nothing or by a ZIP line
ZipDocs ==
    {<<a, b>> : a \in ZipLines, b \in ZipLines}
    \cup {ZipTop(p[1], a, p[2], b) \o r :
            p \in {<<1, 2>>, <<2, ZipWindow>>, <<ZipWindow - 1, ZipWindow>>},
            a \in ZipLines, b \in ZipLines,
            r \in {<<>>, <<<<"R","e","n","o"," ","N","V"," ","8","9","5","0","1">>>>, <<<<"B","o","x"," ","5","4","3","2","1">>>>}}

InitZip ==
    /\ Idle("zip")
    /\ pc = "find"
    /\ lines \in ZipDocs
    /\ headerIdx = -1
    /\ idx = 0
    /\ out = <<>>
    /\ result = NULL

\* const zip = findZip(lines)
FindZip ==
    /\ mode = "zip" /\ pc = "find"
    /\ result' = findZip(lines)
    /\ pc' = "done"
    /\ UNCHANGED <<mode, lines, headerIdx, idx, out, event, build, text, resp, trail, twin>>

NextZip == FindZip

SpecZip == InitZip /\ [][NextZip]_vars

-----------------------------------------------------------------------------
(* Properties of the ZIP extractor *)

\* the text of l from position k on begins with n digits
DigitsAt(l, k, n) == k + n - 1 <= Len(l) /\ \A j \in k..(k + n - 1) : l[j] \in Digit
\* a state abbreviation stands in l as a whole word
StateIn(l) ==
    \E k \in DOMAIN l : \E a \in Range(usStates) :
        HasAt(l, a, k, FALSE) /\ ~IsWordAt(l, k - 1) /\ ~IsWordAt(l, k + 2)
\* the length (5 or 10) of the ZIP that stands in l at position k, 0 for none
ZipLenAt(l, k) ==
    IF ~DigitsAt(l, k, 5) \/ IsWordAt(l, k - 1) THEN 0
    ELSE IF k + 5 <= Len(l) /\ l[k + 5] = "-" /\ DigitsAt(l, k + 6, 4)
            /\ ~IsWordAt(l, k + 10) THEN 10
    ELSE IF ~IsWordAt(l, k + 5) THEN 5
    ELSE 0
ZipIn(l) == \E k \in DOMAIN l : ZipLenAt(l, k) > 0
\* the first ZIP of a line that has one
ZipOf(l) ==
    LET k == Least({j \in DOMAIN l : ZipLenAt(l, j) > 0})
    IN SubSeq(l, k, k + ZipLenAt(l, k) - 1)
ZipTopLines == Slice0(lines, ZipWindow)
ZipAddressLines == {k \in DOMAIN ZipTopLines : StateIn(ZipTopLines[k]) /\ ZipIn(ZipTopLines[k])}
ZipBareLines == {k \in DOMAIN ZipTopLines : ZipIn(ZipTopLines[k])}

\* C11: the ZIP extractor reads the first 50 lines only, in two passes: when
\* some of these lines hold both a whole-word state abbreviation and a ZIP
\* (5 digits, optionally -4), the result is the ZIP of the earliest one,
\* whatever bare ZIPs stand on other lines; otherwise it is the ZIP of the
\* last of these lines that holds a ZIP; it is absent when none does.
C11_TwoPassZip ==
    mode = "zip" /\ pc = "done"
    => result =
         IF ZipAddressLines # {}
         THEN Some(ZipOf(ZipTopLines[Least(ZipAddressLines)]))
         ELSE IF ZipBareLines # {}
         THEN Some(ZipOf(ZipTopLines[CHOOSE k \in ZipBareLines :
                                        \A j \in ZipBareLines : j <= k]))
         ELSE NULL

\* the fallback chose the later of two bare ZIP lines of a full window, and a
\* ZIP after the window was not read
C11_Witness ==
    /\ mode = "zip" /\ pc = "done"
    /\ Len(lines) > ZipWindow
    /\ ZipIn(lines[ZipWindow + 1])
    /\ ZipAddressLines = {}
    /\ Cardinality(ZipBareLines) = 2
    /\ result # NULL
    /\ result[1] # ZipOf(ZipTopLines[Least(ZipBareLines)])
    /\ result[1] # ZipOf(lines[ZipWindow + 1])

-----------------------------------------------------------------------------
(* The whole model: each entry point from its own initial states *)

Init == InitRows \/ InitDate \/ InitCustomer \/ InitHandler \/ InitZip \/ InitCsv
Next == NextRows \/ NextDate \/ NextCustomer \/ NextHandler \/ NextZip \/ NextCsv
Spec == Init /\ [][Next]_vars

=============================================================================
